---- MODULE Spec2Model ----
(***************************************************************************)
(* Carbon-aware slot allocation: CloudScheduler of carbon_calculation.py.  *)
(*                                                                         *)
(* The program computes in floating point; the model computes the same     *)
(* expressions exactly, over integers, in these units:                     *)
(*   job["server_utilization"]  = server_utilization / 4                   *)
(*   job["time"]                = time / 2 hours   (time in half hours)    *)
(*   job["carbon_budget"]       = carbon_budget / 100 kgCO2                *)
(*   job["hardware"]            = "amd_epyc_7571" (the only catalog entry   *)
(*                                that has the keys energy_consumed reads) *)
(*   energy   : 1 unit = 144e-6 MWh  = (1/4) * (1/2 h) * 32*120*0.3 / 1e6  *)
(*   carbon   : 1 unit = 1/41062500 kgCO2                                  *)
(*   intensity: kgCO2 per MWh, an integer                                  *)
(* A score is base + pen/den, a carbon amount is w + n/Denominator.        *)
(* The one place where the float result can differ in kind from the exact  *)
(* one is the budget test on a sum that equals the budget exactly: there   *)
(* the rounding of the float additions decides, and the model takes both   *)
(* outcomes.                                                               *)
(*                                                                         *)
(* Spec         : submit_job calls one after the other, as main() makes    *)
(*                them; submit_job plans with the strategy "simple"        *)
(* SpecDampened : those calls, and calls of get_best_slots(job,            *)
(*                "min_alloc"), which plan on the table and change nothing *)
(* SpecStrategy : those calls, and calls of get_best_slots with any        *)
(*                strategy name                                            *)
(* SpecConc     : two submit_job calls interleaved on one scheduler        *)
(***************************************************************************)
EXTENDS Integers, Sequences, FiniteSets, TLC

VARIABLES intensity_data,      \* self.intensity_data[idx]["AvgCarbonIntensity"]
          current_allocation,  \* self.current_allocation: hour -> [energy, jobs]
          job_carbon,          \* self.job_carbon
          job,                 \* the job of the latest call on the scheduler
          slots,               \* what get_best_slots returned in that call
          ret,                 \* how that call ended and what it returned
          nsub,                \* number of calls made so far
          method,              \* the strategy get_best_slots was given in that call
          threads              \* the submit_job calls that run concurrently, each
                               \* with its position in the code and its locals

vars == <<intensity_data, current_allocation, job_carbon, job, slots, ret, nsub, method,
          threads>>

\* ------------------------------------------------------------------ bounds
MaxSubmits == 2

\* ------------------------------------------------------- program constants
NumHours == 24
Hours == 0 .. (NumHours - 1)

\* an hour holds at most 1 hour of a job: the 1 of min(1, ..) and of "-= 1", in half hours
SlotLen == 2

\* 3.5e6 * (energy unit in MWh) = 3.5e6 * 144e-6
DampenK == 504

\* carbon units of one (intensity * energy unit): 144e-6 * 41062500
OperFactor == 5913

\* carbon units embodied per half hour: (1/2) / 39420 * 1610.40 * 41062500
EmbFactor == 838750

\* carbon units of 0.01 kgCO2
BudgetFactor == 410625

\* ------------------------------------------------------------------ inputs
Min(a, b) == IF a <= b THEN a ELSE b

Utilizations == {-1, 1, 5}
Durations == {-2, 0, 2, 3, 48, 60}
Budgets == {0, 10, 2000}

JobOf(i, u, t, b) ==
    [id |-> i, server_utilization |-> u, time |-> t, carbon_budget |-> b]

NoJob == JobOf(0, 0, 0, 0)

\* a job whose greedy plan costs its budget exactly on the profile of 50 at hour 0
\* and 25 elsewhere: utilization 0.5, 328.5 hours, budget 13.78
TieJob(i) == JobOf(i, 2, 657, 1378)

\* the readings a profile is made of
IntensityValues == {0, 25, 50, 100, 200, 400}

Profile(a, x, b, y, z) ==
    [h \in Hours |-> IF h = a THEN x ELSE IF h = b THEN y ELSE z]

Profiles ==
    { Profile(3, 100, 3, 100, 400),
      Profile(5, 100, 7, 100, 200),
      Profile(23, 100, 0, 200, 400),
      Profile(2, 0, 4, 100, 100),
      Profile(0, 50, 0, 50, 25) }

RECURSIVE Gcd(_, _)
Gcd(a, b) == IF b = 0 THEN a ELSE Gcd(b, a % b)

RECURSIVE LcmOf(_)
LcmOf(S) ==
    IF S = {} THEN 1
    ELSE LET x == CHOOSE y \in S : TRUE
             l == LcmOf(S \ {x})
         IN  (l \div Gcd(l, x)) * x

\* the common denominator of the fractional parts of carbon amounts
Denominator == LcmOf(IntensityValues \ {0})

\* ------------------------------------------------------------- cost model
\* job["time"] / hw["lifetime"] * hw["embodied_carbon"], in carbon units
embodied_carbon(j) == EmbFactor * j.time

\* server_utilization * hours * cores * tdp * tdp_coefficient / 1e6, in energy units
energy_consumed(j) == j.server_utilization * j.time

\* job["time"] / timedelta(hours=1), in half hours
time_required_hrs(j) == j.time

\* energy_consumed / time_required_hrs raises ZeroDivisionError for a zero duration
energy_per_hr_defined(j) == time_required_hrs(j) # 0

\* energy units per half hour
energy_per_hr(j) == energy_consumed(j) \div time_required_hrs(j)

\* float(job["carbon_budget"]), in carbon units
carbon_budget(j) == BudgetFactor * j.carbon_budget

\* -------------------------------------------------------- carbon amounts
Carbon(w, n) == [w |-> w, n |-> n]

CZero == Carbon(0, 0)

CAdd(a, b) ==
    LET n == a.n + b.n
    IN  Carbon(a.w + b.w + (n \div Denominator), n % Denominator)

\* a carbon amount against a whole number of carbon units
CGreater(a, b) == a.w > b \/ (a.w = b /\ a.n > 0)

CLeq(a, b) == ~CGreater(a, b)

CEqual(a, b) == a.w = b /\ a.n = 0

\* ------------------------------------------------------------ slot scorer
Score(base, pen, den) == [base |-> base, pen |-> pen, den |-> den]

\* a plain score that is the hour's index instead of its intensity
get_intensity_indexed(idx) == Score(idx, 0, 1)

get_intensity(idx) == Score(intensity_data[idx], 0, 1)

\* the division by the intensity raises ZeroDivisionError for an intensity of 0
adjusted_intensity_defined(idx) == intensity_data[idx] # 0

\* a dampened score without its congestion penalty
get_adjusted_intensity_flat(idx) == Score(intensity_data[idx], 0, intensity_data[idx])

get_adjusted_intensity(idx) ==
    Score(intensity_data[idx],
          DampenK * current_allocation[idx].energy,
          intensity_data[idx])

\* a < b for scores with positive denominators
ScoreLess(a, b) == (a.base * a.den + a.pen) * b.den < (b.base * b.den + b.pen) * a.den

ScoreLeq(a, b) == ~ScoreLess(b, a)

\* the same pairs listed from hour 23 down to hour 0
after_reversed(dampen) ==
    [i \in 1 .. NumHours |->
        <<NumHours - i,
          IF dampen THEN get_adjusted_intensity(NumHours - i) ELSE get_intensity(NumHours - i)>>]

\* the list comprehension of get_best_slots_v1: (idx, score) for idx in range(24)
after(dampen) ==
    [i \in 1 .. NumHours |->
        <<i - 1, IF dampen THEN get_adjusted_intensity(i - 1) ELSE get_intensity(i - 1)>>]

after_defined(dampen) == dampen => \A idx \in Hours : adjusted_intensity_defined(idx)

\* x goes behind every element whose key is <= its own: sorted() is stable
RECURSIVE Insert(_, _)
Insert(s, x) ==
    IF s = <<>> THEN <<x>>
    ELSE IF ScoreLess(x[2], s[Len(s)][2])
         THEN Append(Insert(SubSeq(s, 1, Len(s) - 1), x), s[Len(s)])
         ELSE Append(s, x)

RECURSIVE SortPrefix(_, _)
SortPrefix(s, n) == IF n = 0 THEN <<>> ELSE Insert(SortPrefix(s, n - 1), s[n])

\* a ranking that is left in hour order
unsorted_slots(dampen) == after(dampen)

\* sorted(after, key=lambda o: o[1])
sorted_slots(dampen) == SortPrefix(after(dampen), NumHours)

\* ------------------------------------------------------- greedy slot walk
\* min(1, time_required_hrs)
time_usage(req) == Min(SlotLen, req)

\* energy_per_hr * time_usage * intensity, in carbon units
SlotCarbon(j, usage, score) ==
    LET c == OperFactor * energy_per_hr(j) * usage
        x == c * score.pen
    IN  Carbon(c * score.base + (x \div score.den),
               (x % score.den) * (Denominator \div score.den))

\* a budget test that leaves the embodied carbon out of the projection
over_budget_operational(projected, j, rounded_up) ==
    CGreater(Carbon(projected.w - embodied_carbon(j), projected.n), carbon_budget(j))

\* projected_carbon > float(job["carbon_budget"]): projected_carbon is a sum of floats,
\* so where the exact sum equals the budget the test is true when the additions
\* have rounded the sum up (rounded_up), and false when they have not
over_budget(projected, j, rounded_up) ==
    \/ CGreater(projected, carbon_budget(j))
    \/ rounded_up /\ CEqual(projected, carbon_budget(j))

\* time_required_hrs -= 1; if time_required_hrs <= 0: break
covered(req) == req - SlotLen <= 0

\* the for loop of get_best_slots_v1 from position i of sorted_slots on
RECURSIVE Walk(_, _, _, _, _, _, _)
Walk(ss, i, j, req, projected, best, rounded_up) ==
    IF i > Len(ss) THEN [success |-> TRUE, best_slots |-> best]
    ELSE LET idx   == ss[i][1]
             score == ss[i][2]
             usage == time_usage(req)
             proj2 == CAdd(projected, SlotCarbon(j, usage, score))
         IN  IF over_budget(proj2, j, rounded_up)
             THEN [success |-> FALSE, best_slots |-> best]
             ELSE IF covered(req)
                  THEN [success |-> TRUE, best_slots |-> Append(best, <<idx, score, usage>>)]
                  ELSE Walk(ss, i + 1, j, req - SlotLen, proj2,
                            Append(best, <<idx, score, usage>>), rounded_up)

\* get_best_slots_v1 raises when a score or energy_per_hr is undefined
get_best_slots_v1_defined(j, dampen) == after_defined(dampen) /\ energy_per_hr_defined(j)

get_best_slots_v1(j, dampen, rounded_up) ==
    LET w == Walk(sorted_slots(dampen), 1, j, time_required_hrs(j),
                  Carbon(embodied_carbon(j), 0), <<>>, rounded_up)
    IN  IF w.success THEN w.best_slots ELSE <<>>

\* the strategy names get_best_slots answers with the list of get_best_slots_v1
Implemented == {"simple", "min_alloc"}

\* what get_best_slots_max_under returns, and get_best_slots when no branch matches
None == "None"

\* get_best_slots raises only where get_best_slots_v1 does
get_best_slots_defined(j, m) ==
    m \in Implemented => get_best_slots_v1_defined(j, m = "min_alloc")

get_best_slots(j, m, rounded_up) ==
    IF m = "simple" THEN get_best_slots_v1(j, FALSE, rounded_up)
    ELSE IF m = "min_alloc" THEN get_best_slots_v1(j, TRUE, rounded_up)
    ELSE None

\* the ways the float additions of one walk can have rounded
Roundings == BOOLEAN

\* ------------------------------------------------------------------ commit
\* one pass of the commit loop of submit_job
\* an energy update that takes every planned hour for a whole hour
EnergyAfterWholeHour(energy, j, slot) == energy + energy_per_hr(j) * SlotLen

\* .energy += energy_per_hr * time_usage, from the value the read gave
EnergyAfter(energy, j, slot) == energy + energy_per_hr(j) * slot[3]

\* an entry list that is assigned the new entry instead of being appended to
EntriesReplaced(entries, j, slot) == <<[id |-> j.id, time |-> slot[3]]>>

\* .jobs.append({"id": job["id"], "time": time_usage})
EntriesAfter(entries, j, slot) == Append(entries, [id |-> j.id, time |-> slot[3]])

CommitSlot(alloc, j, slot) ==
    [alloc EXCEPT ![slot[1]] =
        [energy |-> EnergyAfter(@.energy, j, slot),
         jobs   |-> EntriesAfter(@.jobs, j, slot)]]

RECURSIVE CommitSlots(_, _, _, _)
CommitSlots(alloc, j, ss, n) ==
    IF n = 0 THEN alloc ELSE CommitSlot(CommitSlots(alloc, j, ss, n - 1), j, ss[n])

\* operCarbon after the first n passes of the loop
RECURSIVE operCarbon(_, _, _)
operCarbon(j, ss, n) ==
    IF n = 0 THEN CZero
    ELSE CAdd(operCarbon(j, ss, n - 1), SlotCarbon(j, ss[n][3], ss[n][2]))

\* embCarbon + operCarbon
TotalCarbon(j, ss) == CAdd(Carbon(embodied_carbon(j), 0), operCarbon(j, ss, Len(ss)))

Outcome(kind, total) == [kind |-> kind, total |-> total]

\* a return value that leaves the embodied carbon out
submit_job_return_operational(j, ss) ==
    IF Len(ss) = 0 THEN Outcome("none", CZero) ELSE Outcome("ok", operCarbon(j, ss, Len(ss)))

\* what submit_job returns for the plan ss: None for an empty plan
submit_job_return(j, ss) ==
    IF Len(ss) = 0 THEN Outcome("none", CZero) ELSE Outcome("ok", TotalCarbon(j, ss))

\* self.current_allocation after submit_job: the commit loop over ss
submit_job_allocation(alloc, j, ss) == CommitSlots(alloc, j, ss, Len(ss))

\* a log that is appended to before the plan is looked at
submit_job_log_early(log, j, ss) == Append(log, TotalCarbon(j, ss))

\* self.job_carbon after submit_job: untouched when the plan is empty
submit_job_log(log, j, ss) ==
    IF Len(ss) = 0 THEN log ELSE Append(log, TotalCarbon(j, ss))

\* the strategy submit_job passes to get_best_slots
submit_method == "simple"

\* ----------------------------------------------------------------- actions
EmptyAllocation == [h \in Hours |-> [energy |-> 0, jobs |-> <<>>]]

\* CloudScheduler.__init__ on a forecast file
InitWith ==
    /\ intensity_data \in Profiles
    /\ current_allocation = EmptyAllocation
    /\ job_carbon = <<>>
    /\ job = NoJob
    /\ slots = <<>>
    /\ ret = Outcome("init", CZero)
    /\ nsub = 0
    /\ method = "unset"
    /\ threads = <<>>

\* submit_job: it plans with the strategy of line 134, commits the plan and logs
\* its carbon; it raises before any write
SubmitJob(j) ==
    /\ nsub < MaxSubmits
    /\ nsub' = nsub + 1
    /\ job' = j
    /\ method' = submit_method
    /\ UNCHANGED <<intensity_data, threads>>
    /\ IF ~get_best_slots_defined(j, submit_method)
       THEN /\ ret' = Outcome("ZeroDivisionError", CZero)
            /\ slots' = <<>>
            /\ UNCHANGED <<current_allocation, job_carbon>>
       ELSE \E r \in Roundings : \E ss \in {get_best_slots(j, submit_method, r)} :
                /\ slots' = ss
                /\ ret' = submit_job_return(j, ss)
                /\ current_allocation' = submit_job_allocation(current_allocation, j, ss)
                /\ job_carbon' = submit_job_log(job_carbon, j, ss)

\* a call of get_best_slots(job, method) by a user of the scheduler: it reads the
\* table and writes nothing
GetBestSlots(j, m) ==
    /\ nsub < MaxSubmits
    /\ nsub' = nsub + 1
    /\ job' = j
    /\ method' = m
    /\ UNCHANGED <<intensity_data, current_allocation, job_carbon, threads>>
    /\ IF ~get_best_slots_defined(j, m)
       THEN /\ ret' = Outcome("ZeroDivisionError", CZero)
            /\ slots' = <<>>
       ELSE \E r \in Roundings :
                /\ slots' = get_best_slots(j, m, r)
                /\ ret' = Outcome("returned", CZero)

\* the jobs a caller submits; the id is the position of the call
Jobs ==
    { JobOf(nsub + 1, u, t, b) : u \in Utilizations, t \in Durations, b \in Budgets }
        \cup {TieJob(nsub + 1)}

\* the jobs get_best_slots is called with directly
PlanUtilizations == {1}
PlanDurations == {0, 2, 3, 48}
PlanBudgets == {10, 2000}

PlanJobs ==
    { JobOf(nsub + 1, u, t, b) :
        u \in PlanUtilizations, t \in PlanDurations, b \in PlanBudgets }

Init == InitWith

Next == \E j \in Jobs : SubmitJob(j)

Spec == Init /\ [][Next]_vars

\* submit_job calls, and calls of get_best_slots with the dampened strategy
NextDampened ==
    \/ \E j \in Jobs : SubmitJob(j)
    \/ \E j \in PlanJobs : GetBestSlots(j, "min_alloc")

SpecDampened == Init /\ [][NextDampened]_vars

\* the strategy names get_best_slots can be called with: its three names, and another
Methods == {"simple", "min_alloc", "max_under", "fastest"}

\* submit_job calls, and calls of get_best_slots with any strategy name
NextStrategy ==
    \/ \E j \in Jobs : SubmitJob(j)
    \/ \E j \in PlanJobs, m \in Methods : GetBestSlots(j, m)

SpecStrategy == Init /\ [][NextStrategy]_vars

\* ---------------------------------------------- concurrent submit_job calls
\* Two calls of submit_job on one CloudScheduler, a step per access to the shared
\* object. "+=" on an attribute is a read and a later write; list.append is one step.
Threads == {1, 2}

ConcUtilizations == {1, 4}
ConcDurations == {2, 3}
ConcBudgets == {10, 2000}

ConcJobs(t) ==
    { JobOf(t, u, d, b) : u \in ConcUtilizations, d \in ConcDurations, b \in ConcBudgets }

Thread(pc, j, ss, k, loaded, r) ==
    [pc |-> pc, job |-> j, slots |-> ss, k |-> k, loaded |-> loaded, ret |-> r]

InitConc ==
    /\ intensity_data \in Profiles
    /\ current_allocation = EmptyAllocation
    /\ job_carbon = <<>>
    /\ job = NoJob
    /\ slots = <<>>
    /\ ret = Outcome("init", CZero)
    /\ nsub = 0
    /\ method = "unset"
    /\ \E j1 \in ConcJobs(1), j2 \in ConcJobs(2) :
          threads = [t \in Threads |->
                       Thread("plan", IF t = 1 THEN j1 ELSE j2, <<>>, 0, 0,
                              Outcome("init", CZero))]

Frame == UNCHANGED <<intensity_data, job, slots, ret, nsub, method>>

\* lines 129-136: the plan, and the return of None for an empty one
PlanSlots(t) ==
    /\ threads[t].pc = "plan"
    /\ LET j == threads[t].job
       IN  IF ~get_best_slots_defined(j, submit_method)
           THEN threads' = [threads EXCEPT ![t].pc = "done",
                                           ![t].ret = Outcome("ZeroDivisionError", CZero)]
           ELSE \E r \in Roundings : \E ss \in {get_best_slots(j, submit_method, r)} :
                    threads' = [threads EXCEPT
                        ![t].pc = IF Len(ss) = 0 THEN "done" ELSE "load",
                        ![t].slots = ss,
                        ![t].k = 1,
                        ![t].ret = IF Len(ss) = 0 THEN Outcome("none", CZero) ELSE @]
    /\ UNCHANGED <<current_allocation, job_carbon>>
    /\ Frame

\* line 141, the read of .energy
LoadEnergy(t) ==
    /\ threads[t].pc = "load"
    /\ threads' = [threads EXCEPT
           ![t].pc = "store",
           ![t].loaded = current_allocation[threads[t].slots[threads[t].k][1]].energy]
    /\ UNCHANGED <<current_allocation, job_carbon>>
    /\ Frame

\* line 141, the write of .energy
StoreEnergy(t) ==
    /\ threads[t].pc = "store"
    /\ LET slot == threads[t].slots[threads[t].k]
       IN  current_allocation' =
             [current_allocation EXCEPT
                ![slot[1]].energy = EnergyAfter(threads[t].loaded, threads[t].job, slot)]
    /\ threads' = [threads EXCEPT ![t].pc = "append"]
    /\ UNCHANGED job_carbon
    /\ Frame

\* lines 142-144, and the next pass of the loop or its end
AppendEntry(t) ==
    /\ threads[t].pc = "append"
    /\ LET slot == threads[t].slots[threads[t].k]
       IN  current_allocation' =
             [current_allocation EXCEPT
                ![slot[1]].jobs = EntriesAfter(@, threads[t].job, slot)]
    /\ threads' = [threads EXCEPT
           ![t].pc = IF threads[t].k = Len(threads[t].slots) THEN "log" ELSE "load",
           ![t].k = @ + 1]
    /\ UNCHANGED job_carbon
    /\ Frame

\* lines 146-148
LogCarbon(t) ==
    /\ threads[t].pc = "log"
    /\ job_carbon' = Append(job_carbon, TotalCarbon(threads[t].job, threads[t].slots))
    /\ threads' = [threads EXCEPT
           ![t].pc = "done",
           ![t].ret = Outcome("ok", TotalCarbon(threads[t].job, threads[t].slots))]
    /\ UNCHANGED current_allocation
    /\ Frame

NextConc ==
    \E t \in Threads :
        \/ PlanSlots(t)
        \/ LoadEnergy(t)
        \/ StoreEnergy(t)
        \/ AppendEntry(t)
        \/ LogCarbon(t)

SpecConc == InitConc /\ [][NextConc]_vars

\* ------------------------------------------------------------------ claims
Called == nsub > 0

Succeeded == Called /\ ret.kind = "ok"

\* the preconditions on a job: duration > 0, utilization in (0, 1], budget > 0
ValidJob(j) ==
    /\ j.time > 0
    /\ j.server_utilization > 0 /\ j.server_utilization <= 4
    /\ j.carbon_budget > 0

\* the plan of the latest call as a set of positions
Plan == 1 .. Len(slots)

RECURSIVE SumUsage(_, _)
SumUsage(ss, n) == IF n = 0 THEN 0 ELSE SumUsage(ss, n - 1) + ss[n][3]

\* C1: whenever a submit_job call does not succeed (it returns None, or it raises),
\* every hour's committed energy, every hour's entry list and the job_carbon log
\* are the same after the call as before it.
C1_AtomicOnFailure ==
    [][ret'.kind # "ok" =>
         (current_allocation' = current_allocation /\ job_carbon' = job_carbon)]_vars

\* the latest call was aborted at its second hour for the budget, on a table that
\* already holds a job
C1_Witness ==
    /\ Called /\ ret.kind = "none" /\ job_carbon # <<>>
    /\ energy_per_hr_defined(job)
    /\ LET w == Walk(sorted_slots(FALSE), 1, job, time_required_hrs(job),
                     Carbon(embodied_carbon(job), 0), <<>>, FALSE)
       IN  ~w.success /\ Len(w.best_slots) = 1

\* C2: a job longer than 24 hours never succeeds, whatever its budget.
C2_CapacityFailsClosed ==
    (Called /\ ValidJob(job) /\ time_required_hrs(job) > SlotLen * NumHours)
        => ret.kind # "ok"

\* C3: the fractions of a successful call sum to the job's duration, no hour is
\* planned twice and no hour gets more than one hour.
C3_DurationCovered ==
    (Succeeded /\ ValidJob(job)) =>
        /\ SumUsage(slots, Len(slots)) = time_required_hrs(job)
        /\ \A a, b \in Plan : slots[a][1] = slots[b][1] => a = b
        /\ \A a \in Plan : slots[a][3] <= SlotLen

RECURSIVE SumPlainCarbon(_, _, _)
SumPlainCarbon(j, ss, n) ==
    IF n = 0 THEN 0
    ELSE SumPlainCarbon(j, ss, n - 1)
         + OperFactor * j.server_utilization * ss[n][3] * intensity_data[ss[n][1]]

\* C4: the total a successful call returns is at most the job's budget and is the
\* embodied carbon plus the sum of rate x fraction x intensity over the plan, the
\* intensity being the score the hour was ranked by.
C4_BudgetBound ==
    Succeeded =>
        /\ ret.total.w <= BudgetFactor * job.carbon_budget
        /\ ret.total.n = 0
        /\ ret.total.w = EmbFactor * job.time + SumPlainCarbon(job, slots, Len(slots))
        /\ \A a \in Plan : slots[a][2] = Score(intensity_data[slots[a][1]], 0, 1)

\* a success on two hours with a budget the full day would exceed
C4_Witness == Succeeded /\ ValidJob(job) /\ Len(slots) = 2 /\ job.carbon_budget = 10

\* C5: a job that breaks a precondition is rejected with an outcome that is neither
\* a success nor the None of an infeasible budget, nothing is planned for it, and
\* no hour ever holds negative energy or an entry with a fraction <= 0.
C5_PreconditionRejected ==
    /\ (Called /\ ~ValidJob(job)) => (ret.kind \notin {"ok", "none"} /\ slots = <<>>)
    /\ \A h \in Hours :
          /\ current_allocation[h].energy >= 0
          /\ \A k \in 1 .. Len(current_allocation[h].jobs) :
                current_allocation[h].jobs[k].time > 0

IsPrefix(s, t) == Len(s) <= Len(t) /\ SubSeq(t, 1, Len(s)) = s

\* C6: every hour's committed energy is >= 0 and never decreases, and every hour's
\* entry list only grows at its end.
C6_MonotoneAppendOnly ==
    [][\A h \in Hours :
         /\ current_allocation'[h].energy >= current_allocation[h].energy
         /\ current_allocation'[h].energy >= 0
         /\ IsPrefix(current_allocation[h].jobs, current_allocation'[h].jobs)]_vars

\* the score the next submit_job call ranks and prices hour h by
NextScore(h) == after(submit_method = "min_alloc")[h + 1][2]

\* C7: once a successful call has committed nonzero energy to an hour, the next
\* call scores that hour strictly higher than the call that committed it did.
C7_CongestionPricing ==
    (Succeeded /\ ValidJob(job)) =>
        \A a \in Plan :
            energy_per_hr(job) * slots[a][3] # 0
                => ScoreLess(slots[a][2], NextScore(slots[a][1]))

\* the hour that holds the entry of the first call
FirstHour == CHOOSE h \in Hours : current_allocation[h].jobs # <<>>

\* the first call was submit_job for a one-hour job on the empty table, where the
\* dampened ranking and the plain one are the same, and it committed nonzero energy to
\* one hour; the second call is get_best_slots with the dampened strategy for a job of
\* the same duration and utilization, and it returned a plan
TwoOneHourJobs ==
    /\ nsub = 2 /\ method = "min_alloc" /\ ret.kind = "returned"
    /\ ValidJob(job) /\ time_required_hrs(job) = SlotLen
    /\ Len(slots) = 1
    /\ \E h1 \in Hours :
          /\ current_allocation[h1].jobs = <<[id |-> 1, time |-> SlotLen]>>
          /\ current_allocation[h1].energy = energy_per_hr(job) * SlotLen
          /\ \A h \in Hours \ {h1} : current_allocation[h].jobs = <<>>

\* C8 as claimed: after a one-hour job has been committed to its hour, an identical
\* second job's top-ranked hour under the dampened strategy is a different hour.
C8_DampenedSpreading == TwoOneHourJobs => slots[1][1] # FirstHour

\* the intensity of the first job's hour raised by the penalty of the energy the job
\* added: K * energy / intensity
RaisedScore ==
    Score(intensity_data[FirstHour],
          DampenK * current_allocation[FirstHour].energy,
          intensity_data[FirstHour])

\* C8 as amended: the second job's top-ranked hour is a different hour whenever some
\* other hour's score is below the first hour's raised score, and it is the same
\* hour, priced at the raised score, whenever every other hour's score is above it.
C8_SpreadsWithinPenalty ==
    TwoOneHourJobs =>
        LET others == Hours \ {FirstHour}
        IN  /\ (\E h \in others : ScoreLess(Score(intensity_data[h], 0, 1), RaisedScore))
                => slots[1][1] # FirstHour
            /\ (\A h \in others : ScoreLess(RaisedScore, Score(intensity_data[h], 0, 1)))
                => (slots[1][1] = FirstHour /\ slots[1][2] = RaisedScore)

\* the second of the two jobs is ranked onto another hour
C8_Witness == TwoOneHourJobs /\ slots[1][1] # FirstHour

\* C9: with positive intensities no call lowers the dampened score of an hour.
C9_ScoresNeverDecrease ==
    [][\A h \in Hours :
         intensity_data[h] > 0 =>
            ScoreLeq(Score(intensity_data[h], DampenK * current_allocation[h].energy,
                           intensity_data[h]),
                     Score(intensity_data[h], DampenK * current_allocation'[h].energy,
                           intensity_data[h]))]_vars

\* both concurrent calls have returned
AllDone == DOMAIN threads = Threads /\ \A t \in Threads : threads[t].pc = "done"

\* a whole submit_job call on the table and log st; no job of the concurrent calls
\* has a plan that costs its budget exactly
SerialStep(st, j) ==
    IF ~get_best_slots_defined(j, submit_method) THEN st
    ELSE LET ss == get_best_slots(j, submit_method, FALSE)
         IN  [alloc |-> submit_job_allocation(st.alloc, j, ss),
              log   |-> submit_job_log(st.log, j, ss)]

\* the two calls one after the other on a new scheduler
Serial(first, second) ==
    SerialStep(SerialStep([alloc |-> EmptyAllocation, log |-> <<>>], threads[first].job),
               threads[second].job)

\* C10 as claimed: when both concurrent calls have returned, the energies, the entry
\* lists and the log are those of the two calls run one after the other in some order.
C10_Serializable ==
    AllDone =>
        \E o \in {<<1, 2>>, <<2, 1>>} :
            /\ current_allocation = Serial(o[1], o[2]).alloc
            /\ job_carbon = Serial(o[1], o[2]).log

Count(x, s) == Cardinality({i \in 1 .. Len(s) : s[i] = x})

SameBag(s, t) ==
    /\ Len(s) = Len(t)
    /\ \A i \in 1 .. Len(s) : Count(s[i], s) = Count(s[i], t)

\* the energy the call of thread t adds to hour h
Contribution(t, h) ==
    LET ks == {k \in 1 .. Len(threads[t].slots) : threads[t].slots[k][1] = h}
    IN  IF ks = {} THEN 0
        ELSE LET k == CHOOSE x \in ks : TRUE
             IN  EnergyAfter(0, threads[t].job, threads[t].slots[k])

\* C10 as amended: when both concurrent calls have returned, every hour's entry list
\* and the log hold exactly what a serial run leaves there, in some order, and every
\* hour's energy is the serial energy or that energy less the share of one call.
C10_EntriesKeptEnergyMayBeLost ==
    AllDone =>
        LET s == Serial(1, 2)
        IN  /\ \A h \in Hours :
                 /\ SameBag(current_allocation[h].jobs, s.alloc[h].jobs)
                 /\ \/ current_allocation[h].energy = s.alloc[h].energy
                    \/ \E t \in Threads :
                          /\ Contribution(t, h) # 0
                          /\ current_allocation[h].energy
                               = s.alloc[h].energy - Contribution(t, h)
            /\ SameBag(job_carbon, s.log)

\* both calls have returned, an hour holds the entries of both and the energy of one
C10_Witness ==
    /\ AllDone
    /\ \E h \in Hours :
          /\ Len(current_allocation[h].jobs) = 2
          /\ current_allocation[h].energy < Serial(1, 2).alloc[h].energy

\* C12: a call that selects a strategy get_best_slots does not implement is rejected
\* as such, and get_best_slots never returns a value that is not a list.
C12_UnimplementedRejected ==
    (Called /\ ValidJob(job) /\ method \notin Implemented) =>
        (ret.kind = "rejected" /\ slots # None)

\* C13: the job_carbon log starts empty; a call that succeeds appends exactly the
\* total it returns at the end of the log, and a call that does not succeed leaves
\* the log as it was. So the log holds the totals of the successful calls, in order.
C13_LogMatchesSubmissions ==
    [][/\ nsub = 0 => job_carbon = <<>>
       /\ IF ret'.kind = "ok"
          THEN job_carbon' = Append(job_carbon, ret'.total)
          ELSE job_carbon' = job_carbon]_vars

\* two calls have succeeded with different totals: the log holds both, the latest last
C13_Witness ==
    /\ nsub = 2 /\ Succeeded
    /\ Len(job_carbon) = 2
    /\ job_carbon[2] = ret.total
    /\ job_carbon[1] # job_carbon[2]

\* the profile of the example: 400 at every hour except 100 at hour 3
ExampleProfile == [h \in Hours |-> IF h = 3 THEN 100 ELSE 400]

\* the first call on the example profile, for a job of 1.0 hour whose budget covers
\* its embodied carbon and 1.0 hour at intensity 100
ExampleCall ==
    /\ nsub = 1
    /\ intensity_data = ExampleProfile
    /\ time_required_hrs(job) = SlotLen
    /\ carbon_budget(job)
         >= embodied_carbon(job) + OperFactor * energy_per_hr(job) * SlotLen * 100

\* C14: in the example the plain strategy plans hour 3 alone with fraction 1.0,
\* commits exactly one entry, at hour 3, and returns the job's embodied carbon plus
\* energy_per_hr x 1.0 x 100: energy_per_hr x 1.0 x 100 for an embodied carbon of 0.
C14_ExampleScenario ==
    ExampleCall =>
        /\ ret.kind = "ok"
        /\ slots = <<<<3, Score(100, 0, 1), SlotLen>>>>
        /\ \A h \in Hours :
              current_allocation[h].jobs
                = IF h = 3 THEN <<[id |-> job.id, time |-> SlotLen]>> ELSE <<>>
        /\ current_allocation[3].energy = energy_per_hr(job) * SlotLen
        /\ ret.total = Carbon(embodied_carbon(job)
                               + OperFactor * energy_per_hr(job) * SlotLen * 100, 0)
        /\ job_carbon = <<ret.total>>

\* the example call made with a valid job
C14_Witness == ExampleCall /\ ValidJob(job) /\ ret.kind = "ok"
\* (hour ia, score sa) comes before (hour ib, score sb) in the ranking: ascending
\* score, equal scores by ascending hour index
RankedBefore(ia, sa, ib, sb) ==
    ScoreLess(sa, sb) \/ (~ScoreLess(sb, sa) /\ ia < ib)

\* the hours of the latest plan
PlanHours == {slots[a][1] : a \in Plan}

\* the score the latest call ranked hour h by, for an hour the call did not commit to
CallScore(h) ==
    IF method = "min_alloc" THEN get_adjusted_intensity(h) ELSE get_intensity(h)

\* the latest call got a plan from get_best_slots_v1
PlanReturned == Called /\ ret.kind \in {"ok", "returned"} /\ method \in Implemented

\* C15: the hours of a returned plan are in ascending order of the scores they were
\* ranked by, equal scores in ascending hour index, and every hour outside the plan
\* comes after every hour of the plan in that order: the plan is a prefix of the
\* ranking of the 24 hours.
C15_PlanIsRankingPrefix ==
    PlanReturned =>
        /\ \A a, b \in Plan :
              a < b => RankedBefore(slots[a][1], slots[a][2], slots[b][1], slots[b][2])
        /\ \A a \in Plan : \A h \in Hours \ PlanHours :
              RankedBefore(slots[a][1], slots[a][2], h, CallScore(h))

\* a dampened plan of two hours of equal score, returned for a table on which another
\* hour holds energy of an earlier call
C15_Witness ==
    /\ nsub = 2 /\ PlanReturned /\ method = "min_alloc" /\ Len(slots) = 2
    /\ ~ScoreLess(slots[1][2], slots[2][2])
    /\ \E h \in Hours \ PlanHours : current_allocation[h].energy > 0

\* C16: for every profile of 24 non-negative intensities and every reachable table,
\* get_adjusted_intensity has a value at every hour, so no call of get_best_slots for
\* a valid job under the dampened strategy ends in an error of the scorer.
C16_DampenedScoreDefined ==
    (Called /\ ValidJob(job) /\ method = "min_alloc") =>
        /\ \A h \in Hours : adjusted_intensity_defined(h)
        /\ ret.kind # "ZeroDivisionError"
\* the sum of rate x fraction over the entries of es from position n on, all of
\* which must carry the id of job j
RECURSIVE EntriesEnergy(_, _, _)
EntriesEnergy(es, j, n) ==
    IF n > Len(es) THEN 0
    ELSE energy_per_hr(j) * es[n].time + EntriesEnergy(es, j, n + 1)

\* the energy the hours 0 .. h hold in table b beyond what they hold in table a
RECURSIVE EnergyAdded(_, _, _)
EnergyAdded(a, b, h) ==
    IF h < 0 THEN 0 ELSE (b[h].energy - a[h].energy) + EnergyAdded(a, b, h - 1)

\* C17: every hour starts with no energy and no entries, and a call adds to each
\* hour's energy exactly energy_per_hr(job) x fraction for each entry it appends to
\* that hour, all of them entries of its job: so each hour's energy is the sum over
\* its entries. A successful call for a job of at most 24 hours adds energy_consumed(job)
\* over all hours.
C17_EnergyConservation ==
    [][/\ nsub = 0 => current_allocation = EmptyAllocation
       /\ \A h \in Hours :
             LET old == current_allocation[h]
                 new == current_allocation'[h]
             IN  /\ IsPrefix(old.jobs, new.jobs)
                 /\ \A k \in (Len(old.jobs) + 1) .. Len(new.jobs) : new.jobs[k].id = job'.id
                 /\ new.energy - old.energy = EntriesEnergy(new.jobs, job', Len(old.jobs) + 1)
       /\ (ret'.kind = "ok" /\ time_required_hrs(job') <= SlotLen * NumHours)
             => EnergyAdded(current_allocation, current_allocation', NumHours - 1)
                  = energy_consumed(job')]_vars

\* the second call has put a job of 1.5 hours on two hours, one of them an hour that
\* holds an entry of the first call
C17_Witness ==
    /\ nsub = 2 /\ Succeeded /\ ValidJob(job)
    /\ Len(slots) = 2 /\ slots[2][3] < SlotLen
    /\ \E a \in Plan : Len(current_allocation[slots[a][1]].jobs) = 2
\* the operational carbon of req half hours put on the ranking ss from position k on:
\* 1.0 hour on each hour, the remainder on the last one
RECURSIVE CompletePlanCarbon(_, _, _, _)
CompletePlanCarbon(ss, j, k, req) ==
    IF req <= 0 \/ k > Len(ss) THEN CZero
    ELSE CAdd(SlotCarbon(j, Min(SlotLen, req), ss[k][2]),
              CompletePlanCarbon(ss, j, k + 1, req - SlotLen))

\* the complete greedy plan of the latest job fits its budget; under the plain
\* strategy the ranking is the same before and after the call
CompletePlanFits ==
    CLeq(CAdd(Carbon(embodied_carbon(job), 0),
              CompletePlanCarbon(sorted_slots(FALSE), job, 1, time_required_hrs(job))),
         carbon_budget(job))

\* a duration that is positive and at most 24 hours
WithinDay(j) == time_required_hrs(j) > 0 /\ time_required_hrs(j) <= SlotLen * NumHours

\* C18: with non-negative scores, a call for a job of positive duration at most 24
\* hours succeeds if and only if the embodied carbon plus the operational carbon of
\* its complete greedy plan is at most its budget.
C18_EarlyAbortEqualsFull ==
    (Called /\ WithinDay(job) /\ job.carbon_budget > 0)
        => (ret.kind = "ok" <=> CompletePlanFits)
\* the half hours the first n entries of the plan ss put on hour h
RECURSIVE FractionAt(_, _, _)
FractionAt(ss, h, n) ==
    IF n = 0 THEN 0
    ELSE FractionAt(ss, h, n - 1) + (IF ss[n][1] = h THEN ss[n][3] ELSE 0)

\* the latest plan as an assignment of half hours to the 24 hours
PlanAssignment == [h \in Hours |-> FractionAt(slots, h, Len(slots))]

\* the sum of fraction x intensity of the assignment f over the hours 0 .. h
RECURSIVE AssignmentCost(_, _)
AssignmentCost(f, h) ==
    IF h < 0 THEN 0 ELSE f[h] * intensity_data[h] + AssignmentCost(f, h - 1)

RECURSIVE AssignmentTime(_, _)
AssignmentTime(f, h) == IF h < 0 THEN 0 ELSE f[h] + AssignmentTime(f, h - 1)

\* the assignment f with d half hours moved from hour a to hour b
Moved(f, a, b, d) ==
    [h \in Hours |-> IF h = a THEN f[h] - d ELSE IF h = b THEN f[h] + d ELSE f[h]]

\* the assignments of the same duration, at most 1.0 hour per hour, that differ from
\* f by one move of time between two hours; the cost is linear in the assignment,
\* so an assignment none of whose moves is cheaper has no cheaper assignment at all
Moves(f) ==
    { Moved(f, m[1], m[2], m[3]) :
        m \in { x \in Hours \X Hours \X (1 .. SlotLen) :
                   x[1] # x[2] /\ f[x[1]] >= x[3] /\ f[x[2]] + x[3] <= SlotLen } }

Feasible(f, t) ==
    /\ \A h \in Hours : f[h] >= 0 /\ f[h] <= SlotLen
    /\ AssignmentTime(f, NumHours - 1) = t

\* C19: the plan a successful plain call commits for a job of positive duration at
\* most 24 hours assigns the job's duration with at most 1.0 hour per hour, and no
\* other such assignment has a lower sum of fraction x intensity.
C19_GreedyPlanCostMinimal ==
    (Succeeded /\ WithinDay(job)) =>
        \E f \in {PlanAssignment} : \E cost \in {AssignmentCost(f, NumHours - 1)} :
            /\ Feasible(f, time_required_hrs(job))
            /\ \A g \in Moves(f) :
                  /\ Feasible(g, time_required_hrs(job))
                  /\ AssignmentCost(g, NumHours - 1) >= cost

\* a job of 1.5 hours is planned on two hours of different intensity, and the hours
\* outside the plan are dearer than both
C19_Witness ==
    /\ Succeeded /\ ValidJob(job) /\ Len(slots) = 2 /\ slots[2][3] < SlotLen
    /\ intensity_data[slots[1][1]] < intensity_data[slots[2][1]]
    /\ \E h \in Hours \ PlanHours : intensity_data[h] > intensity_data[slots[2][1]]
    /\ Moves(PlanAssignment) # {}
====
